---- MODULE Spec2Model ----
(***************************************************************************)
(* Binary puzzle (Takuzu) grids: construction, rule validation, the 0/1    *)
(* constraint model and the enumeration loops solve / solve_all of         *)
(* src/src/binary_puzzle/puzzle.py and src/src/binary_puzzle/solver.py.    *)
(*                                                                         *)
(* Python indices 0..N-1 are 1..N here.  A grid is a tuple of N rows, each *)
(* a tuple of N integers.  An assignment of the decision variables         *)
(* grid_vars[row][col][value] is a function a with a[row][col][value] in   *)
(* {0,1}.  The external solver is a black box: a call returns "Optimal"    *)
(* with any assignment that satisfies every constraint of the problem, or  *)
(* "Infeasible" when none does.                                            *)
(***************************************************************************)
EXTENDS Integers, Sequences, FiniteSets, TLC

VARIABLES pc, shape, grid, err, checkRes, verifyRes, op, prob, status,
          values, solutions, result

vars == <<pc, shape, grid, err, checkRes, verifyRes, op, prob, status,
          values, solutions, result>>

\* ---------------------------------------------------------------- bounds
\* largest dimension of a raw input array
MaxDim == 6
\* cell values of input grids range over -MaxVal..MaxVal
MaxVal == 2
\* 4x4 inputs have their first k cells (row-major) UNKNOWN, k <= MaxUnknown
MaxUnknown == 8
\* the solver's answer is explored exhaustively while at most MaxBranch
\* assignments are feasible; above that one fixed answer is followed
MaxBranch == 3

UNKNOWN == -1
Values == {0, 1}
CellVals == (0 - MaxVal)..MaxVal

\* ------------------------------------------------------------- puzzle.py
Transpose(g) == [j \in 1..Len(g) |-> [i \in 1..Len(g) |-> g[i][j]]]

RECURSIVE SeqSum(_)
SeqSum(s) == IF s = <<>> THEN 0 ELSE Head(s) + SeqSum(Tail(s))

\* (variant: the minimum-size test made before the even-size test)
ShapeCheckMinFirst(sh) ==
    IF Len(sh) = 0 THEN "IndexError"
    ELSE IF Len(sh) # 2 THEN "dimension"
    ELSE IF sh[1] # sh[2] THEN "quadratic"
    ELSE IF sh[1] < 2 THEN "minimum"
    ELSE IF sh[1] % 2 # 0 THEN "even"
    ELSE "ok"

\* BinaryPuzzle.__init__ + _check_valid_shape on an array of shape sh:
\* the error raised, or "ok"
ShapeCheck(sh) ==
    IF Len(sh) = 0 THEN "IndexError"          \* self.grid.shape[0]
    ELSE IF Len(sh) # 2 THEN "dimension"
    ELSE IF sh[1] # sh[2] THEN "quadratic"
    ELSE IF sh[1] % 2 # 0 THEN "even"
    ELSE IF sh[1] = 0 THEN "minimum"
    ELSE "ok"

\* (variant: UNKNOWN cells accepted)
CheckBinaryKnownOnly(g) ==
    \A r \in 1..Len(g) : \A c \in 1..Len(g) : g[r][c] \in {0, 1, UNKNOWN}

CheckBinary(g) == \A r \in 1..Len(g) : \A c \in 1..Len(g) : g[r][c] \in {0, 1}

\* N / 2 is a float in the source; N is even for every constructed grid
CheckParity(g) ==
    /\ \A c \in 1..Len(g) : 2 * SeqSum(Transpose(g)[c]) = Len(g)
    /\ \A r \in 1..Len(g) : 2 * SeqSum(g[r]) = Len(g)

CheckTriplesRow(puzzle) ==
    \A r \in 1..Len(puzzle) : \A i \in 1..(Len(puzzle[r]) - 3 + 1) :
        (puzzle[r][i] + puzzle[r][i+1] + puzzle[r][i+2]) \notin {0, 3}

CheckTriples(g) == CheckTriplesRow(g) /\ CheckTriplesRow(Transpose(g))

CheckUniqueness(g) ==
    /\ Cardinality({g[r] : r \in 1..Len(g)}) = Len(g)
    /\ Cardinality({Transpose(g)[c] : c \in 1..Len(g)}) = Len(g)

Check(g) == CheckBinary(g) /\ CheckParity(g) /\ CheckTriples(g) /\ CheckUniqueness(g)

\* (variant: uniqueness tested before triples)
VerifyUniquenessFirst(g) ==
    IF ~CheckBinary(g) THEN "binary"
    ELSE IF ~CheckParity(g) THEN "parity"
    ELSE IF ~CheckUniqueness(g) THEN "uniqueness"
    ELSE IF ~CheckTriples(g) THEN "triples"
    ELSE "True"

\* verify: "True", or the rule whose ValueError is raised
Verify(g) ==
    IF ~CheckBinary(g) THEN "binary"
    ELSE IF ~CheckParity(g) THEN "parity"
    ELSE IF ~CheckTriples(g) THEN "triples"
    ELSE IF ~CheckUniqueness(g) THEN "uniqueness"
    ELSE "True"

\* ------------------------------------------------------------- solver.py
\* CONSTRAINT 1: exactly one value per cell
Constraint1(a, n) ==
    \A row \in 1..n : \A col \in 1..n : a[row][col][0] + a[row][col][1] = 1

\* CONSTRAINT 2: parity of rows (== N/2)
Constraint2(a, n) ==
    \A row \in 1..n : \A value \in Values :
        2 * SeqSum([col \in 1..n |-> a[row][col][value]]) = n

\* (variant: the row sum written again for the columns)
Constraint3RowsAgain(a, n) ==
    \A col \in 1..n : \A value \in Values :
        2 * SeqSum([row \in 1..n |-> a[col][row][value]]) = n

\* CONSTRAINT 3: parity of columns (== N/2)
Constraint3(a, n) ==
    \A col \in 1..n : \A value \in Values :
        2 * SeqSum([row \in 1..n |-> a[row][col][value]]) = n

\* CONSTRAINT 4: no triples, rows and columns
Constraint4(a, n) ==
    \A triple \in 0..(n - 3) : \A value \in Values :
        /\ \A row \in 1..n :
              a[row][1+triple][value] + a[row][2+triple][value]
                + a[row][3+triple][value] <= 2
        /\ \A col \in 1..n :
              a[1+triple][col][value] + a[2+triple][col][value]
                + a[3+triple][col][value] <= 2

\* the prefilled values: one constraint  sum(var*value) == clue  per known cell
ClueConstraints(puzzle) ==
    {<<row, col, puzzle[row][col]>> : row \in 1..Len(puzzle), col \in 1..Len(puzzle)}
      \ {<<row, col, UNKNOWN>> : row \in 1..Len(puzzle), col \in 1..Len(puzzle)}

\* (variant: the weights of the two value variables exchanged)
ClueHoldsSwapped(a, k) == a[k[1]][k[2]][0] * 1 + a[k[1]][k[2]][1] * 0 = k[3]

ClueHolds(a, k) == a[k[1]][k[2]][0] * 0 + a[k[1]][k[2]][1] * 1 = k[3]

\* _build_model: constraints 1-4 are fixed by N, the clue constraints by the
\* grid; excl is the list of constraints appended later
BuildModel(puzzle) ==
    [N |-> Len(puzzle), clues |-> ClueConstraints(puzzle), excl |-> <<>>]

\* _decision_var_to_puzzle: 0 unless overwritten by a value whose variable is 1
DecisionVarToPuzzle(a) ==
    [row \in 1..Len(a) |-> [col \in 1..Len(a) |->
        IF a[row][col][1] = 1 THEN 1
        ELSE IF a[row][col][0] = 1 THEN 0 ELSE 0]]

\* the variables whose value is 1
TrueVars(a) ==
    {v \in (1..Len(a)) \X (1..Len(a)) \X Values : a[v[1]][v[2]][v[3]] = 1}

\* (variant: only the variables of value 1 are summed)
AddCurrentSolutionOnes(P, a) ==
    [P EXCEPT !.excl = Append(@, [vars |-> {v \in TrueVars(a) : v[3] = 1},
                                  rhs |-> Len(a) * Len(a) - 1])]

\* (variant: bound N - 1 instead of N**2 - 1)
AddCurrentSolutionBoundN(P, a) ==
    [P EXCEPT !.excl = Append(@, [vars |-> TrueVars(a), rhs |-> Len(a) - 1])]

\* _add_current_solution_as_constraint: sum of the variables now 1 <= N**2 - 1
AddCurrentSolutionAsConstraint(P, a) ==
    [P EXCEPT !.excl = Append(@, [vars |-> TrueVars(a), rhs |-> Len(a) * Len(a) - 1])]

ExclHolds(a, e) == Cardinality({v \in e.vars : a[v[1]][v[2]][v[3]] = 1}) <= e.rhs

\* ------------------------------------------------------- external solver
\* grid sizes for which the enumeration loops are explored
Sizes == {2, 4}

\* search space of the solver, pruned by the cell- and row-local constraints
CellCands == {cell \in [Values -> {0, 1}] : cell[0] + cell[1] = 1}
RowCands(n) ==
    {row \in [1..n -> CellCands] :
        /\ \A value \in Values : 2 * SeqSum([col \in 1..n |-> row[col][value]]) = n
        /\ \A triple \in 0..(n - 3) : \A value \in Values :
              row[1+triple][value] + row[2+triple][value] + row[3+triple][value] <= 2}
Candidates(n) == [1..n -> RowCands(n)]

\* assignments satisfying constraints 1-4 of a size-n problem
BaseSat(n) ==
    {a \in Candidates(n) :
        Constraint1(a, n) /\ Constraint2(a, n) /\ Constraint3(a, n) /\ Constraint4(a, n)}
\* ({e : e \in S} is enumerated once by TLC and kept as an explicit set)
BaseSat2 == {a : a \in BaseSat(2)}
BaseSat4 == {a : a \in BaseSat(4)}
BaseFeasible(n) == IF n = 2 THEN BaseSat2 ELSE BaseSat4

\* assignments satisfying every constraint of problem P
Feasible(P) ==
    {a \in BaseFeasible(P.N) :
        /\ \A k \in P.clues : ClueHolds(a, k)
        /\ \A i \in 1..Len(P.excl) : ExclHolds(a, P.excl[i])}

\* the answers of one solver call that the model follows
Picks(F) == IF Cardinality(F) <= MaxBranch THEN F ELSE {CHOOSE a \in F : TRUE}

\* ---------------------------------------------------------------- inputs
Shapes == UNION {[1..d -> 0..MaxDim] : d \in 0..3}

Masked(g, k) ==
    [r \in 1..Len(g) |-> [c \in 1..Len(g) |->
        IF (r - 1) * Len(g) + c <= k THEN UNKNOWN ELSE g[r][c]]]

Overwrite(g, v) == [g EXCEPT ![Len(g)][Len(g)] = v]

\* input grids of size n: every grid for n = 2; for larger n the grids that
\* satisfy constraints 1-4 with the last cell overwritten by any value and a
\* prefix of the cells UNKNOWN, and the all-UNKNOWN grid
\* 6x6 inputs (validated only): three fixed rows, the other three drawn from
\* three rows and their complements
RowA == <<0, 0, 1, 0, 1, 1>>
RowB == <<0, 0, 1, 1, 0, 1>>
RowC == <<0, 1, 0, 0, 1, 1>>
Complement(row) == [c \in 1..Len(row) |-> 1 - row[c]]
Rows6 == {RowA, Complement(RowA), RowB, Complement(RowB), RowC, Complement(RowC)}
Puzzles6 ==
    {<<RowA, Complement(RowA), RowB, t[1], t[2], t[3]>> : t \in [1..3 -> Rows6]}

Puzzles(n) ==
    IF n = 2 THEN [1..n -> [1..n -> CellVals]]
    ELSE IF n = 4
      THEN {Masked(Overwrite(DecisionVarToPuzzle(a), v), k) :
                a \in BaseFeasible(n), v \in CellVals, k \in 0..MaxUnknown}
           \cup {[r \in 1..n |-> [c \in 1..n |-> UNKNOWN]]}
    ELSE IF n = 6 THEN Puzzles6
    ELSE {}

NoProblem == [N |-> 0, clues |-> {}, excl |-> <<>>]

Init ==
    /\ pc = "new"
    /\ shape \in Shapes
    /\ grid \in (IF ShapeCheck(shape) = "ok" THEN Puzzles(shape[1]) ELSE {<<>>})
    /\ err = "none"
    /\ checkRes = "none"
    /\ verifyRes = "none"
    /\ op = "none"
    /\ prob = NoProblem
    /\ status = "none"
    /\ values = <<>>
    /\ solutions = <<>>
    /\ result = <<>>

\* BinaryPuzzle(grid): raises, or the grid exists
Construct ==
    /\ pc = "new"
    /\ err' = ShapeCheck(shape)
    /\ pc' = IF ShapeCheck(shape) = "ok" THEN "constructed" ELSE "failed"
    /\ UNCHANGED <<shape, grid, checkRes, verifyRes, op, prob, status, values,
                   solutions, result>>

\* puzzle.check()
CallCheck ==
    /\ pc = "constructed"
    /\ checkRes' = IF Check(grid) THEN "True" ELSE "False"
    /\ pc' = "checked"
    /\ UNCHANGED <<shape, grid, err, verifyRes, op, prob, status, values,
                   solutions, result>>

\* puzzle.verify()
CallVerify ==
    /\ pc = "checked"
    /\ verifyRes' = Verify(grid)
    /\ pc' = "verified"
    /\ UNCHANGED <<shape, grid, err, checkRes, op, prob, status, values,
                   solutions, result>>

\* solve(puzzle), up to the loop (explored for the grid sizes in Sizes)
StartSolve ==
    /\ pc = "verified"
    /\ Len(grid) \in Sizes
    /\ op' = "solve"
    /\ prob' = BuildModel(grid)
    /\ pc' = "call"
    /\ UNCHANGED <<shape, grid, err, checkRes, verifyRes, status, values,
                   solutions, result>>

\* solve_all(puzzle), up to the loop (explored for the grid sizes in Sizes)
StartSolveAll ==
    /\ pc = "verified"
    /\ Len(grid) \in Sizes
    /\ op' = "solve_all"
    /\ prob' = BuildModel(grid)
    /\ solutions' = <<>>
    /\ pc' = "call"
    /\ UNCHANGED <<shape, grid, err, checkRes, verifyRes, status, values, result>>

\* prob.solve(...): the solver sets the status and the variables' values
SolverCall ==
    /\ pc = "call"
    /\ IF Feasible(prob) = {}
         THEN status' = "Infeasible" /\ UNCHANGED values
         ELSE status' = "Optimal" /\ values' \in Picks(Feasible(prob))
    /\ pc' = "loop"
    /\ UNCHANGED <<shape, grid, err, checkRes, verifyRes, op, prob, solutions, result>>

\* (variant: a rejected candidate ends the search)
SolveStepNoRetry ==
    /\ pc = "loop" /\ op = "solve"
    /\ pc' = "done"
    /\ result' = IF status = "Optimal" /\ Check(DecisionVarToPuzzle(values))
                   THEN <<DecisionVarToPuzzle(values)>> ELSE <<>>
    /\ UNCHANGED <<shape, grid, err, checkRes, verifyRes, op, prob, status, values,
                   solutions>>

\* the rest of one iteration of solve
SolveStep ==
    /\ pc = "loop" /\ op = "solve"
    /\ IF status # "Optimal"
         THEN pc' = "done" /\ result' = <<>> /\ UNCHANGED prob
         ELSE IF Check(DecisionVarToPuzzle(values))
                THEN /\ pc' = "done"
                     /\ result' = <<DecisionVarToPuzzle(values)>>
                     /\ UNCHANGED prob
                ELSE /\ prob' = AddCurrentSolutionAsConstraint(prob, values)
                     /\ pc' = "call"
                     /\ UNCHANGED result
    /\ UNCHANGED <<shape, grid, err, checkRes, verifyRes, op, status, values, solutions>>

\* the rest of one iteration of solve_all
SolveAllStep ==
    /\ pc = "loop" /\ op = "solve_all"
    /\ IF status # "Optimal"
         THEN pc' = "done" /\ UNCHANGED <<prob, solutions>>
         ELSE /\ solutions' = IF Check(DecisionVarToPuzzle(values))
                                THEN Append(solutions, DecisionVarToPuzzle(values))
                                ELSE solutions
              /\ prob' = AddCurrentSolutionAsConstraint(prob, values)
              /\ pc' = "call"
    /\ UNCHANGED <<shape, grid, err, checkRes, verifyRes, op, status, values, result>>

Next ==
    \/ Construct
    \/ CallCheck
    \/ CallVerify
    \/ StartSolve
    \/ StartSolveAll
    \/ SolverCall
    \/ SolveStep
    \/ SolveAllStep

Spec == Init /\ [][Next]_vars

\* every call is blocking and returns: each enabled step is eventually taken
FairSpec == Spec /\ WF_vars(Next)

\* ------------------------------------------------------------ properties
Validated == pc \in {"verified", "call", "loop", "done"}
Candidate == DecisionVarToPuzzle(values)
HasUnknown(g) == \E r \in 1..Len(g) : \E c \in 1..Len(g) : g[r][c] = UNKNOWN
Agrees(g, h) ==
    \A r \in 1..Len(g) : \A c \in 1..Len(g) : g[r][c] # UNKNOWN => h[r][c] = g[r][c]
Range(q) == {q[i] : i \in 1..Len(q)}

\* the rule-legal 0/1 grids, found by testing check on every 0/1 grid
Legal2 == {g : g \in {h \in [1..2 -> [1..2 -> Values]] : Check(h)}}
Legal4 == {g : g \in {h \in [1..4 -> [1..4 -> Values]] : Check(h)}}
LegalCompletions(g) == {h \in (IF Len(g) = 2 THEN Legal2 ELSE Legal4) : Agrees(g, h)}

\* C1: the list built by solve_all never holds two content-equal grids, and
\* every grid in it is fully known and passes check
C1_SolveAllDistinctAndLegal ==
    op = "solve_all" =>
        \A i \in 1..Len(solutions) :
            /\ ~HasUnknown(solutions[i])
            /\ Check(solutions[i])
            /\ \A j \in 1..Len(solutions) : solutions[i] = solutions[j] => i = j

C1_Witness ==
    /\ pc = "done" /\ op = "solve_all" /\ Len(grid) = 4
    /\ Len(solutions) >= 2
    /\ Len(prob.excl) > Len(solutions)

\* C2: solve_all returns exactly the rule-legal completions of the input
C2_SolveAllComplete ==
    (pc = "done" /\ op = "solve_all") => Range(solutions) = LegalCompletions(grid)

C2_Witness ==
    /\ pc = "done" /\ op = "solve_all" /\ Len(grid) = 4
    /\ \A r \in 1..4 : \A c \in 1..4 : grid[r][c] = UNKNOWN
    /\ Len(solutions) = 72
    /\ Len(prob.excl) = 90

\* C3: every iteration that goes round the loop leaves strictly fewer feasible
\* assignments, and solve / solve_all eventually return
C3_LoopTerminates ==
    /\ [][(pc = "loop" /\ pc' = "call") =>
            Cardinality(Feasible(prob))' < Cardinality(Feasible(prob))]_vars
    /\ (pc = "call") ~> (pc = "done")

C3_Witness == pc = "done" /\ Len(prob.excl) >= 3

\* C4: a grid returned by solve is fully known, passes check and keeps every
\* clue; a fully filled legal input is returned content-equal
C4_SolveReturnsLegalCompletion ==
    (pc = "done" /\ op = "solve") =>
        /\ result # <<>> =>
              /\ ~HasUnknown(result[1])
              /\ Check(result[1])
              /\ Agrees(grid, result[1])
        /\ Check(grid) => result = <<grid>>

C4_Witness ==
    /\ pc = "done" /\ op = "solve" /\ Len(grid) = 4
    /\ Check(grid) /\ result = <<grid>>

\* C5: contradictory clues give None from solve and the empty list from
\* solve_all, and solve gives None only when no legal completion exists
C5_NoSolutionIsAValue ==
    pc = "done" =>
        /\ LegalCompletions(grid) = {} =>
              /\ op = "solve" => result = <<>>
              /\ op = "solve_all" => solutions = <<>>
        /\ (op = "solve" /\ result = <<>>) => LegalCompletions(grid) = {}

C5_Witness ==
    /\ pc = "done" /\ op = "solve" /\ Len(grid) = 4
    /\ \E r \in 1..4 : Cardinality({c \in 1..4 : grid[r][c] = 1}) = 3
    /\ CheckBinary(grid)
    /\ result = <<>>

\* C6 (as stated): every assignment satisfying the constraint system yields
\* a grid for which check is true
C6_FeasibleImpliesCheck ==
    pc = "call" =>
        \A a \in Feasible(prob) : Check(DecisionVarToPuzzle(a))

\* C6 (amended): every assignment satisfying the constraint system yields a
\* fully known grid that keeps the clues and passes check_binary,
\* check_parity and check_triples; check_uniqueness is not implied
C6_FeasibleImpliesLinearRules ==
    pc = "call" =>
        \A a \in Feasible(prob) :
            /\ CheckBinary(DecisionVarToPuzzle(a))
            /\ CheckParity(DecisionVarToPuzzle(a))
            /\ CheckTriples(DecisionVarToPuzzle(a))
            /\ Agrees(grid, DecisionVarToPuzzle(a))

C6_Witness ==
    /\ pc = "loop" /\ status = "Optimal"
    /\ CheckParity(Candidate) /\ CheckTriples(Candidate)
    /\ ~CheckUniqueness(Candidate)

\* C7: verify returns True exactly when check does, and otherwise reports the
\* first failing rule in the order binary, parity, triples, uniqueness
C7_VerifyAgreesWithCheck ==
    Validated =>
        /\ checkRes \in {"True", "False"}
        /\ verifyRes = "True" <=> checkRes = "True"
        /\ verifyRes = "binary" <=> ~CheckBinary(grid)
        /\ verifyRes = "parity" <=> (CheckBinary(grid) /\ ~CheckParity(grid))
        /\ verifyRes = "triples" <=>
              (CheckBinary(grid) /\ CheckParity(grid) /\ ~CheckTriples(grid))
        /\ verifyRes = "uniqueness" <=>
              (CheckBinary(grid) /\ CheckParity(grid) /\ CheckTriples(grid)
                 /\ ~CheckUniqueness(grid))

C7_Witness ==
    /\ Validated
    /\ ~CheckTriples(grid) /\ ~CheckUniqueness(grid)
    /\ verifyRes = "triples"

\* C8 (as stated): 3x3 fails with the even-size error, a non-2-dimensional
\* input with the dimension error, 1x1 with the minimum-size error, and no
\* grid with N odd or N < 2 is constructed
C8_ShapeErrorsAsStated ==
    pc # "new" =>
        /\ shape = <<3, 3>> => err = "even"
        /\ Len(shape) # 2 => err = "dimension"
        /\ shape = <<1, 1>> => err = "minimum"
        /\ pc # "failed" => (shape[1] % 2 = 0 /\ shape[1] >= 2)

\* C8 (amended): 3x3 and 1x1 fail with the even-size error, an input of 1 or
\* of 3 dimensions with the dimension error, a 0-dimensional input with an
\* index error, 0x0 with the minimum-size error, and no grid with N odd or
\* N < 2 is constructed
C8_ShapeErrors ==
    pc # "new" =>
        /\ shape = <<3, 3>> => err = "even"
        /\ Len(shape) \in {1, 3} => err = "dimension"
        /\ Len(shape) = 0 => err = "IndexError"
        /\ shape = <<1, 1>> => err = "even"
        /\ shape = <<0, 0>> => err = "minimum"
        /\ pc # "failed" => (Len(shape) = 2 /\ shape[1] = shape[2]
                              /\ shape[1] % 2 = 0 /\ shape[1] >= 2)

C8_Witness == pc = "failed" /\ shape = <<1, 1>> /\ err = "even"

\* C9 (as stated): verify returns True for a grid with UNKNOWN cells whose
\* clues have a legal completion
C9_VerifyAcceptsPartial ==
    (Validated /\ Len(grid) \in Sizes /\ HasUnknown(grid)
       /\ LegalCompletions(grid) # {}) => verifyRes = "True"

\* C9 (amended): verify fails with the binary-rule error, and check is false,
\* for every grid with an UNKNOWN cell, whether or not its clues have a legal
\* completion
C9_VerifyRejectsPartial ==
    (Validated /\ HasUnknown(grid)) => (verifyRes = "binary" /\ checkRes = "False")

C9_Witness ==
    /\ Validated /\ Len(grid) = 4 /\ HasUnknown(grid)
    /\ LegalCompletions(grid) # {}
    /\ verifyRes = "binary"

\* C10: the exclusion constraint removes exactly the assignment just returned
\* from the feasible set, that assignment is never returned again, and the
\* constraints are only appended to
C10_ExclusionRemovesExactlyOne ==
    /\ [][(pc = "loop" /\ pc' = "call") =>
            /\ values \in Feasible(prob)
            /\ Feasible(prob)' = Feasible(prob) \ {values}]_vars
    /\ [][(pc \in {"call", "loop"}) =>
            /\ prob'.N = prob.N /\ prob'.clues = prob.clues
            /\ Len(prob'.excl) >= Len(prob.excl)
            /\ SubSeq(prob'.excl, 1, Len(prob.excl)) = prob.excl]_vars
    /\ [][(pc = "call" /\ status' = "Optimal") =>
            \A i \in 1..Len(prob.excl) : prob.excl[i].vars # TrueVars(values')]_vars

C10_Witness == pc = "call" /\ Len(grid) = 4 /\ Len(prob.excl) >= 3
====
